---- MODULE Spec2Model ----
(***************************************************************************)
(* Model of scripts/validate.py, the registry validator of osaurus-tools:  *)
(* main() walks plugins/*.json, validate_plugin_file() checks one manifest,*)
(* validate_version()/validate_artifact() check its versions and artifacts,*)
(* check_public_key_immutability() compares the key with the base branch   *)
(* and verify_artifact_signature() downloads an artifact and runs minisign.*)
(* Strings are sequences of one-character strings, so that the regular     *)
(* expressions and str methods of the script are computed, not assumed.    *)
(***************************************************************************)
EXTENDS Integers, Sequences, FiniteSets, TLC

\* ------------------------------------------------------------------ bounds
MaxFiles == 2
MaxVersions == 2
MaxArtifacts == 2
MaxIdLen == 4

\* --------------------------------------------------------- program constants
MinKeyPayload == 50
Sha256Len == 64
SignatureLines == 4
JsonSuffixLen == 5

\* ------------------------------------------------------------- characters
LowerSeq == <<"a","b","c","d","e","f","g","h","i","j","k","l","m",
              "n","o","p","q","r","s","t","u","v","w","x","y","z">>
UpperSeq == <<"A","B","C","D","E","F","G","H","I","J","K","L","M",
              "N","O","P","Q","R","S","T","U","V","W","X","Y","Z">>
LowerLetters == {LowerSeq[i] : i \in DOMAIN LowerSeq}
UpperLetters == {UpperSeq[i] : i \in DOMAIN UpperSeq}
Digits == {"0","1","2","3","4","5","6","7","8","9"}
Whitespace == {" ", "\n", "\t", "\r"}

\* the character classes of the script's regular expressions
ClassLowerAlnum == LowerLetters \cup Digits
ClassLowerAlnumUH == LowerLetters \cup Digits \cup {"_", "-"}
ClassBase64 == LowerLetters \cup UpperLetters \cup Digits \cup {"+", "/"}
ClassHex == {"a","b","c","d","e","f","A","B","C","D","E","F"} \cup Digits
ClassAlnumH == LowerLetters \cup UpperLetters \cup Digits \cup {"-"}

\* ------------------------------------------------------------ str methods
\* n copies of the character c
Rep(c, n) == [i \in 1..n |-> c]

AllIn(s, class) == \A i \in DOMAIN s : s[i] \in class

\* str.lower() on one character and on a string
LowerChar(c) ==
    IF \E i \in DOMAIN UpperSeq : UpperSeq[i] = c
    THEN LowerSeq[CHOOSE i \in DOMAIN UpperSeq : UpperSeq[i] = c]
    ELSE c
lower(s) == [i \in DOMAIN s |-> LowerChar(s[i])]

\* str.startswith / str.endswith
startswith(s, p) == Len(s) >= Len(p) /\ SubSeq(s, 1, Len(p)) = p
endswith(s, p) == Len(s) >= Len(p) /\ SubSeq(s, Len(s) - Len(p) + 1, Len(s)) = p

\* str.strip(): leading and trailing whitespace removed
RECURSIVE lstrip(_)
lstrip(s) == IF s # <<>> /\ Head(s) \in Whitespace THEN lstrip(Tail(s)) ELSE s
RECURSIVE rstrip(_)
rstrip(s) ==
    IF s # <<>> /\ s[Len(s)] \in Whitespace THEN rstrip(SubSeq(s, 1, Len(s) - 1)) ELSE s
strip(s) == rstrip(lstrip(s))

\* str.split(sep) for a one-character separator: always at least one piece
RECURSIVE split(_, _)
split(s, sep) ==
    IF \E i \in DOMAIN s : s[i] = sep
    THEN LET i == CHOOSE j \in DOMAIN s : s[j] = sep /\ \A k \in 1..(j - 1) : s[k] # sep
         IN  <<SubSeq(s, 1, i - 1)>> \o split(SubSeq(s, i + 1, Len(s)), sep)
    ELSE <<s>>

\* Python's "$": the end of the string, or just before a newline that ends it.
\* DollarForms(s) are the strings the body of a "^...$" pattern may have to equal.
DollarForms(s) ==
    {s} \cup (IF s # <<>> /\ s[Len(s)] = "\n" THEN {SubSeq(s, 1, Len(s) - 1)} ELSE {})

\* number of trailing "=" characters
RECURSIVE TrailingEq(_)
TrailingEq(s) ==
    IF s # <<>> /\ s[Len(s)] = "=" THEN 1 + TrailingEq(SubSeq(s, 1, Len(s) - 1)) ELSE 0

\* ------------------------------------------------- constants of the script
REQUIRED_TOP_LEVEL == {"plugin_id", "versions", "public_keys"}
REQUIRED_VERSION_LEVEL == {"version", "artifacts"}
REQUIRED_ARTIFACT_LEVEL == {"os", "arch", "url", "sha256", "minisign"}
VALID_OS == {"macos"}
VALID_ARCH == {"arm64"}

\* ----------------------------------------------------- regular expressions
\* [1-9]\d* or 0
NumericId(s) ==
    /\ s # <<>>
    /\ AllIn(s, Digits)
    /\ (Len(s) > 1 => s[1] # "0")

\* 0|[1-9]\d*|\d*[a-zA-Z-][0-9a-zA-Z-]*  (one pre-release identifier)
PrereleaseId(s) ==
    /\ s # <<>>
    /\ AllIn(s, ClassAlnumH)
    /\ (NumericId(s) \/ \E i \in DOMAIN s : s[i] \notin Digits)

\* [0-9a-zA-Z-]+  (one build identifier)
BuildId(s) == s # <<>> /\ AllIn(s, ClassAlnumH)

\* position of the first occurrence of c in s, 0 when there is none
FirstIndex(s, c) ==
    IF \E i \in DOMAIN s : s[i] = c
    THEN CHOOSE i \in DOMAIN s : s[i] = c /\ \A k \in 1..(i - 1) : s[k] # c
    ELSE 0

\* body of SEMVER_REGEX between "^" and "$".  The core holds digits and dots
\* only and no identifier holds "+", so the first "+" starts the build part
\* and the first "-" before it starts the pre-release part.
SemverBody(s) ==
    LET plus == FirstIndex(s, "+")
        front == IF plus = 0 THEN s ELSE SubSeq(s, 1, plus - 1)
        build == IF plus = 0 THEN <<>> ELSE SubSeq(s, plus + 1, Len(s))
        dash == FirstIndex(front, "-")
        core == IF dash = 0 THEN front ELSE SubSeq(front, 1, dash - 1)
        pre == IF dash = 0 THEN <<>> ELSE SubSeq(front, dash + 1, Len(front))
        coreParts == split(core, ".")
    IN  /\ Len(coreParts) = 3
        /\ \A i \in 1..3 : NumericId(coreParts[i])
        /\ (dash # 0 =>
              LET ps == split(pre, ".") IN \A i \in DOMAIN ps : PrereleaseId(ps[i]))
        /\ (plus # 0 =>
              LET bs == split(build, ".") IN \A i \in DOMAIN bs : BuildId(bs[i]))

validate_semver(version) == \E t \in DollarForms(version) : SemverBody(t)

\* body of MINISIGN_PUBKEY_REGEX: RW[A-Za-z0-9+/]{50,}={0,2}
PubkeyBody(s) ==
    LET pad == TrailingEq(s)
        payload == SubSeq(s, 3, Len(s) - pad)
    IN  /\ startswith(s, <<"R", "W">>)
        /\ pad <= 2
        /\ Len(payload) >= MinKeyPayload
        /\ AllIn(payload, ClassBase64)

MINISIGN_PUBKEY_REGEX(s) == \E t \in DollarForms(s) : PubkeyBody(t)

\* base64_pattern of validate_minisign_signature: ^[A-Za-z0-9+/]+=*$
Base64Body(s) ==
    LET payload == SubSeq(s, 1, Len(s) - TrailingEq(s))
    IN  payload # <<>> /\ AllIn(payload, ClassBase64)

base64_pattern(s) == \E t \in DollarForms(s) : Base64Body(t)

\* ^[a-fA-F0-9]{64}$
Sha256Regex(s) == \E t \in DollarForms(s) : Len(t) = Sha256Len /\ AllIn(t, ClassHex)

\* ^[a-z0-9]+(\.[a-z0-9_-]+)+$ run as an automaton over the characters:
\* q = 0 before the first character, 1 inside the first segment, 2 right
\* after a dot, 3 inside a later segment (the only accepting state).
RECURSIVE PluginIdRun(_, _, _)
PluginIdRun(s, i, q) ==
    IF i > Len(s) THEN q = 3
    ELSE LET c == s[i] IN
         CASE q = 0 -> c \in ClassLowerAlnum /\ PluginIdRun(s, i + 1, 1)
           [] q = 1 -> \/ c \in ClassLowerAlnum /\ PluginIdRun(s, i + 1, 1)
                       \/ c = "." /\ PluginIdRun(s, i + 1, 2)
           [] q = 2 -> c \in ClassLowerAlnumUH /\ PluginIdRun(s, i + 1, 3)
           [] OTHER -> \/ c \in ClassLowerAlnumUH /\ PluginIdRun(s, i + 1, 3)
                       \/ c = "." /\ PluginIdRun(s, i + 1, 2)

\* mutant: the group may repeat zero times, so one segment is enough
PluginIdRegexOneSegment(s) ==
    \E t \in DollarForms(s) :
        PluginIdRun(t, 1, 0) \/ (t # <<>> /\ AllIn(t, ClassLowerAlnum))

PluginIdRegex(s) == \E t \in DollarForms(s) : PluginIdRun(t, 1, 0)

\* mutant: the lower-case test is missing
PluginIdSyntaxNoLower(plugin_id) ==
    IF ~PluginIdRegex(plugin_id) THEN "bad_format" ELSE "ok"

\* lines 301-307: the lower-case test, then the dot-separated format test
PluginIdSyntax(plugin_id) ==
    IF plugin_id # lower(plugin_id) THEN "not_lower"
    ELSE IF ~PluginIdRegex(plugin_id) THEN "bad_format"
    ELSE "ok"

\* ------------------------------------------------------------- validators
validate_public_keys(public_keys) ==
    /\ public_keys.isDict
    /\ public_keys.hasMinisign
    /\ public_keys.isStr
    /\ MINISIGN_PUBKEY_REGEX(public_keys.minisign)

UntrustedPrefix == <<"u","n","t","r","u","s","t","e","d"," ","c","o","m","m","e","n","t",":">>
TrustedPrefix == <<"t","r","u","s","t","e","d"," ","c","o","m","m","e","n","t",":">>
HttpsPrefix == <<"h","t","t","p","s",":","/","/">>
JsonSuffix == <<".","j","s","o","n">>

validate_minisign_signature(minisign_obj) ==
    /\ minisign_obj.isDict
    /\ minisign_obj.hasSignature
    /\ minisign_obj.isStr
    /\ LET lines == split(strip(minisign_obj.signature), "\n")
       IN  /\ Len(lines) = SignatureLines
           /\ startswith(lines[1], UntrustedPrefix)
           /\ startswith(lines[3], TrustedPrefix)
           /\ base64_pattern(lines[2])
           /\ base64_pattern(lines[4])

validate_artifact(artifact) ==
    /\ REQUIRED_ARTIFACT_LEVEL \subseteq artifact.keys
    /\ artifact.os \in VALID_OS
    /\ artifact.arch \in VALID_ARCH
    /\ startswith(artifact.url, HttpsPrefix)
    /\ Sha256Regex(artifact.sha256)
    /\ validate_minisign_signature(artifact.minisign)

\* mutant: a base-branch manifest without a key is compared like any other
check_public_key_immutability_NoLegacy(base_ref, git, current_public_key) ==
    IF base_ref = <<>> THEN TRUE
    ELSE IF git.raised THEN TRUE
    ELSE IF git.returncode # 0 THEN TRUE
    ELSE IF ~git.parses THEN TRUE
    ELSE IF ~git.isDict THEN TRUE
    ELSE current_public_key = git.minisign

\* what "git show origin/<base_ref>:<path>" and the parse of its output gave:
\*   raised     the subprocess could not be run (an exception)
\*   returncode the exit status of git show
\*   parses     stdout is JSON;  isDict  it and its public_keys are objects
\*   minisign   base_data.get("public_keys", {}).get("minisign", "")
check_public_key_immutability(base_ref, git, current_public_key) ==
    IF base_ref = <<>> THEN TRUE
    ELSE IF git.raised THEN TRUE
    ELSE IF git.returncode # 0 THEN TRUE
    ELSE IF ~git.parses THEN TRUE
    ELSE IF ~git.isDict THEN TRUE
    ELSE IF git.minisign = <<>> THEN TRUE
    ELSE current_public_key = git.minisign

\* ------------------------------------------------------------ input pools
\* Keys, signatures, artifacts, version entries and manifests the runs draw
\* from: a well-formed value of each kind and values with one defect each.
KeyA == <<"R", "W">> \o Rep("A", MinKeyPayload)
KeyB == <<"R", "W">> \o Rep("B", MinKeyPayload)
KeyShort == <<"R", "W">> \o Rep("A", MinKeyPayload - 1)

StrKey(k) == [isDict |-> TRUE, hasMinisign |-> TRUE, isStr |-> TRUE, minisign |-> k]
PublicKeysPool ==
    { StrKey(KeyA), StrKey(KeyShort),
      [StrKey(<<>>) EXCEPT !.isDict = FALSE],
      [StrKey(<<>>) EXCEPT !.hasMinisign = FALSE],
      [StrKey(<<>>) EXCEPT !.isStr = FALSE] }

GitFound(k) ==
    [raised |-> FALSE, returncode |-> 0, parses |-> TRUE, isDict |-> TRUE, minisign |-> k]
GitPool ==
    { GitFound(KeyA), GitFound(KeyB), GitFound(<<>>),
      [GitFound(<<>>) EXCEPT !.isDict = FALSE],
      [GitFound(<<>>) EXCEPT !.parses = FALSE],
      [GitFound(<<>>) EXCEPT !.returncode = 128],
      [GitFound(<<>>) EXCEPT !.raised = TRUE] }

NL == <<"\n">>
SigLine2 == <<"R", "W", "Q", "x">>
SigLine4 == <<"Q", "Q", "=", "=">>
GoodSignature ==
    UntrustedPrefix \o NL \o SigLine2 \o NL \o TrustedPrefix \o NL \o SigLine4 \o NL
ThreeLineSignature == UntrustedPrefix \o NL \o SigLine2 \o NL \o TrustedPrefix \o NL
BadMarkerSignature ==
    UntrustedPrefix \o NL \o SigLine2 \o NL \o UntrustedPrefix \o NL \o SigLine4
BadBase64Signature ==
    UntrustedPrefix \o NL \o <<"R", " ", "x">> \o NL \o TrustedPrefix \o NL \o SigLine4

StrSig(sig) == [isDict |-> TRUE, hasSignature |-> TRUE, isStr |-> TRUE, signature |-> sig]
GoodArtifact ==
    [ keys |-> REQUIRED_ARTIFACT_LEVEL, os |-> "macos", arch |-> "arm64",
      url |-> HttpsPrefix \o <<"x">>, sha256 |-> Rep("a", Sha256Len),
      minisign |-> StrSig(GoodSignature) ]
ArtifactPool ==
    { GoodArtifact,
      [GoodArtifact EXCEPT !.keys = @ \ {"sha256"}],
      [GoodArtifact EXCEPT !.os = "windows"],
      [GoodArtifact EXCEPT !.url = <<"h","t","t","p",":","/","/","x">>],
      [GoodArtifact EXCEPT !.minisign = StrSig(ThreeLineSignature)],
      [GoodArtifact EXCEPT !.minisign = StrSig(BadMarkerSignature)] }
NoArtifact == [keys |-> {}]

Version100 == <<"1", ".", "0", ".", "0">>
GoodEntry(n) ==
    [ keys |-> REQUIRED_VERSION_LEVEL, version |-> Version100, artifactsIsList |-> TRUE,
      nArtifacts |-> n, hasMinVersion |-> FALSE, osaurus_min_version |-> <<>> ]
EntryPool ==
    { GoodEntry(n) : n \in 1..MaxArtifacts } \cup
    { [GoodEntry(1) EXCEPT !.keys = @ \cup {"requires"}, !.hasMinVersion = TRUE,
                           !.osaurus_min_version = v] :
          v \in {Version100, <<"0", "1", ".", "2", ".", "3">>} } \cup
    { [GoodEntry(1) EXCEPT !.keys = {"version"}],
      [GoodEntry(1) EXCEPT !.version = <<"1", ".", "0">>],
      [GoodEntry(1) EXCEPT !.artifactsIsList = FALSE],
      GoodEntry(0) }
NoEntry == [keys |-> {}]

\* file names of the plugins directory, each ending in ".json"
StemPool == { <<"a", ".", "b">>, <<"A", ".", "B">>, <<"c", ".", "d">> }
FilePool == { stem \o JsonSuffix : stem \in StemPool }

GoodManifest(id, pk, n) ==
    [ json |-> "dict", keys |-> REQUIRED_TOP_LEVEL, plugin_id |-> id,
      versionsIsList |-> TRUE, nVersions |-> n, public_keys |-> pk ]
\* the documents a file of the given stem may hold
ManifestPool(stem) ==
    { GoodManifest(stem, StrKey(KeyA), n) : n \in 0..MaxVersions } \cup
    { GoodManifest(stem, pk, 0) : pk \in PublicKeysPool } \cup
    { GoodManifest(stem, StrKey(KeyB), 0),
      GoodManifest(lower(stem), StrKey(KeyA), 0),
      [GoodManifest(stem, StrKey(KeyA), 0) EXCEPT !.keys = @ \ {"public_keys"}],
      [GoodManifest(stem, StrKey(KeyA), 0) EXCEPT !.versionsIsList = FALSE],
      [GoodManifest(stem, StrKey(KeyA), 0) EXCEPT !.json = "list"],
      [GoodManifest(stem, StrKey(KeyA), 0) EXCEPT !.json = "invalid"] }
NoFrame == [outcome |-> "none"]

\* sequences of length at most n over S
SeqsUpTo(S, n) == UNION { [1..k -> S] : k \in 0..n }
\* sequences without repetition
Distinct(q) == \A i, j \in DOMAIN q : i # j => q[i] # q[j]

\* ------------------------------------------------------------------ state
VARIABLES
    GITHUB_BASE_REF,     \* os.environ.get("GITHUB_BASE_REF", "")
    VERIFY_SIGNATURES,   \* os.environ.get("VERIFY_SIGNATURES", "")
    minisign_installed,  \* shutil.which("minisign") is not None
    plugins_dir,         \* os.path.isdir(plugins_dir)
    json_files,          \* glob.glob(plugins_dir/*.json)
    pc,                  \* position of the run
    file_idx,            \* index of json_file in main's loop
    failed,              \* main: failed
    seen_ids,            \* main: seen_ids
    exit_code,           \* exit status of the process, -1 while it runs
    traceback,           \* the run ended by an uncaught exception
    log,                 \* what validate_plugin_file returned, per call
    ids,                 \* history: the plugin_id each call read (<<>> when it read none)
    frame,               \* validate_plugin_file: data, base-branch lookup, outcome
    plugin_id,           \* validate_plugin_file: plugin_id
    public_key,          \* validate_plugin_file: public_key
    verify_signatures,   \* validate_plugin_file: verify_signatures
    nVersions,           \* len(data["versions"])
    version_idx,         \* validate_plugin_file: idx of the versions loop
    file_valid,          \* validate_plugin_file: valid
    entry,               \* validate_version: entry
    artifact_idx,        \* validate_version: idx of the artifacts loop
    valid,               \* validate_version: valid
    has_macos_arm64,     \* validate_version: has_macos_arm64
    artifact,            \* validate_version: artifact
    vres,                \* how the last verify_artifact_signature call went
    tmpdirs,             \* temporary directories that exist
    tmpdir,              \* verify_artifact_signature: tmpdir
    mismatch,            \* history: minisign reported a bad signature in this version / file
    err,                 \* history: an "Error" line was printed for this version / file
    skipped,             \* history: an unreachable artifact of this file was skipped
    probe_id,            \* identifier given to the syntax check (SpecId)
    probe_result         \* what the syntax check answered (SpecId)

envVars == <<GITHUB_BASE_REF, VERIFY_SIGNATURES, minisign_installed, plugins_dir, json_files>>
mainVars == <<file_idx, failed, seen_ids, exit_code, traceback, log, ids>>
fileVars == <<frame, plugin_id, public_key, verify_signatures, nVersions, version_idx, file_valid>>
verVars == <<entry, artifact_idx, valid, has_macos_arm64, artifact, vres>>
tmpVars == <<tmpdirs, tmpdir>>
histVars == <<mismatch, err, skipped>>
probeVars == <<probe_id, probe_result>>
vars == <<envVars, pc, mainVars, fileVars, verVars, tmpVars, histVars, probeVars>>

NoScope == [ver |-> FALSE, file |-> FALSE]
AllScopes == [ver |-> TRUE, file |-> TRUE]
NoRes == [path |-> "none", ret |-> TRUE, ran |-> FALSE]

\* the state before main() has run, for the environment given
Idle ==
    /\ file_idx = 1 /\ failed = FALSE /\ seen_ids = {} /\ exit_code = -1
    /\ traceback = FALSE /\ log = <<>> /\ ids = <<>>
    /\ frame = NoFrame /\ plugin_id = <<>> /\ public_key = <<>>
    /\ verify_signatures = FALSE /\ nVersions = 0 /\ version_idx = 1 /\ file_valid = TRUE
    /\ entry = NoEntry /\ artifact_idx = 1 /\ valid = TRUE /\ has_macos_arm64 = FALSE
    /\ artifact = NoArtifact /\ vres = NoRes
    /\ tmpdirs = {} /\ tmpdir = 0
    /\ mismatch = NoScope /\ err = NoScope /\ skipped = FALSE

Init ==
    /\ GITHUB_BASE_REF \in {<<>>, <<"m", "a", "i", "n">>}
    /\ VERIFY_SIGNATURES \in {<<>>, <<"1">>, <<"T", "R", "U", "E">>}
    /\ minisign_installed \in BOOLEAN
    /\ plugins_dir \in BOOLEAN
    /\ json_files \in IF plugins_dir
                      THEN {q \in SeqsUpTo(FilePool, MaxFiles) : Distinct(q)}
                      ELSE {<<>>}
    /\ Idle
    /\ pc = "main"
    /\ probe_id = <<>> /\ probe_result = "none"

\* ------------------------------------------------------ validate_plugin_file
\* os.environ.get("VERIFY_SIGNATURES", "").lower() in ("1", "true", "yes")
VerifyEnabled(value) ==
    lower(value) \in {<<"1">>, <<"t", "r", "u", "e">>, <<"y", "e", "s">>}

\* filename[:-5]
expected_id(filename) == SubSeq(filename, 1, Len(filename) - JsonSuffixLen)

\* The checks of validate_plugin_file in the order of the code, up to the
\* versions loop, give the name of the first statement that leaves the
\* function, or "versions" when the loop is entered.
\* Lines 276-318: the document, the identifier and the versions field.
\* "traceback" is data.keys() raising AttributeError for a document that is
\* not an object; "pass" means that line 320 is reached.
IdentityChecks(filename, data, seen) ==
    IF data.json = "invalid" THEN "invalid_json"
    ELSE IF data.json # "dict" THEN "traceback"
    ELSE IF ~(REQUIRED_TOP_LEVEL \subseteq data.keys) THEN "missing_fields"
    ELSE IF ~endswith(filename, JsonSuffix) THEN "not_json"
    ELSE IF data.plugin_id # expected_id(filename) THEN "id_mismatch"
    ELSE IF PluginIdSyntax(data.plugin_id) # "ok" THEN PluginIdSyntax(data.plugin_id)
    ELSE IF lower(data.plugin_id) \in seen THEN "duplicate"
    ELSE IF ~data.versionsIsList THEN "versions_not_list"
    ELSE "pass"

\* mutant: the empty versions list returns before the key is looked at
KeyAndReleaseChecksEmptyFirst(data, git) ==
    IF data.nVersions = 0 THEN "unreleased"
    ELSE IF ~validate_public_keys(data.public_keys) THEN "bad_public_keys"
    ELSE IF ~check_public_key_immutability(GITHUB_BASE_REF, git, data.public_keys.minisign)
         THEN "key_changed"
    ELSE IF VerifyEnabled(VERIFY_SIGNATURES) /\ ~minisign_installed THEN "no_minisign"
    ELSE "versions"

\* Lines 320-343: the public key, its immutability, the empty versions list
\* and the availability of minisign.
KeyAndReleaseChecks(data, git) ==
    IF ~validate_public_keys(data.public_keys) THEN "bad_public_keys"
    ELSE IF ~check_public_key_immutability(GITHUB_BASE_REF, git, data.public_keys.minisign)
         THEN "key_changed"
    ELSE IF data.nVersions = 0 THEN "unreleased"
    ELSE IF VerifyEnabled(VERIFY_SIGNATURES) /\ ~minisign_installed THEN "no_minisign"
    ELSE "versions"

PluginFileOutcome(filename, data, seen, git) ==
    IF IdentityChecks(filename, data, seen) # "pass"
    THEN IdentityChecks(filename, data, seen)
    ELSE KeyAndReleaseChecks(data, git)

\* outcomes that are "return False"
ReturnsFalse ==
    { "invalid_json", "missing_fields", "not_json", "id_mismatch", "not_lower",
      "bad_format", "duplicate", "versions_not_list", "bad_public_keys", "key_changed",
      "no_minisign" }
\* outcomes reached after seen_ids.add(lower_id)
AfterUniqueCheck ==
    { "versions_not_list", "bad_public_keys", "key_changed", "no_minisign",
      "unreleased", "versions" }

\* main: if not validate_plugin_file(...): failed = True
MainFold(wasFailed, ok) == wasFailed \/ ~ok
\* validate_plugin_file: if not validate_version(...): valid = False
FileFold(wasValid, ok) == wasValid /\ ok
\* mutant: valid = result, so a later artifact overwrites an earlier failure
ArtifactFoldLast(wasValid, ok) == ok
\* validate_version: if not validate_artifact / verify_artifact_signature: valid = False
ArtifactFold(wasValid, ok) == wasValid /\ ok

\* the base-branch lookup runs only when GITHUB_BASE_REF is set
NoGit == GitFound(<<>>)
GitOutcomes == IF GITHUB_BASE_REF = <<>> THEN {NoGit} ELSE GitPool

\* ----------------------------------------------------------------- main
MainStart ==
    /\ pc = "main"
    /\ IF ~plugins_dir THEN pc' = "done" /\ exit_code' = 1
       ELSE IF json_files = <<>> THEN pc' = "done" /\ exit_code' = 0
       ELSE pc' = "loop" /\ exit_code' = exit_code
    /\ UNCHANGED <<envVars, file_idx, failed, seen_ids, traceback, log, ids, fileVars, verVars,
                   tmpVars, histVars, probeVars>>

\* validate_plugin_file from its first line to the statement that leaves the
\* top-level checks (lines 275-343)
ValidatePluginFile ==
    /\ pc = "loop"
    /\ file_idx <= Len(json_files)
    /\ \E data \in ManifestPool(expected_id(json_files[file_idx])), git \in GitOutcomes :
         LET outcome == PluginFileOutcome(json_files[file_idx], data, seen_ids, git) IN
         /\ frame' = [data |-> data, git |-> git, outcome |-> outcome]
         /\ seen_ids' = IF outcome \in AfterUniqueCheck
                        THEN seen_ids \cup {lower(data.plugin_id)} ELSE seen_ids
         /\ plugin_id' = IF data.json = "dict" THEN data.plugin_id ELSE <<>>
         /\ err' = [ver |-> FALSE, file |-> outcome \in ReturnsFalse]
         /\ mismatch' = NoScope
         /\ skipped' = FALSE
    /\ pc' = "top_done"
    /\ UNCHANGED <<envVars, file_idx, failed, exit_code, traceback, log, ids, public_key,
                   verify_signatures, nVersions, version_idx, file_valid, verVars, tmpVars,
                   probeVars>>

\* the exception leaves validate_plugin_file and main: the interpreter prints
\* the traceback and exits with status 1
FileTraceback ==
    /\ pc = "top_done"
    /\ frame.outcome = "traceback"
    /\ traceback' = TRUE /\ exit_code' = 1 /\ pc' = "done"
    /\ frame' = NoFrame
    /\ UNCHANGED <<envVars, file_idx, failed, seen_ids, log, ids, plugin_id, public_key,
                   verify_signatures, nVersions, version_idx, file_valid, verVars, tmpVars,
                   histVars, probeVars>>

\* "return False" of the top-level checks, or "return True" for versions == []
FileReturnEarly ==
    /\ pc = "top_done"
    /\ frame.outcome \in ReturnsFalse \cup {"unreleased"}
    /\ LET ok == frame.outcome = "unreleased" IN
         /\ log' = Append(log, ok)
         /\ ids' = Append(ids, plugin_id)
         /\ failed' = MainFold(failed, ok)
    /\ file_idx' = file_idx + 1
    /\ pc' = "loop"
    /\ frame' = NoFrame /\ plugin_id' = <<>>
    /\ UNCHANGED <<envVars, seen_ids, exit_code, traceback, public_key, verify_signatures,
                   nVersions, version_idx, file_valid, verVars, tmpVars, histVars, probeVars>>

\* lines 345-346: valid = True and the versions loop begins
FileEnterVersions ==
    /\ pc = "top_done"
    /\ frame.outcome = "versions"
    /\ public_key' = frame.data.public_keys.minisign
    /\ verify_signatures' = VerifyEnabled(VERIFY_SIGNATURES)
    /\ nVersions' = frame.data.nVersions
    /\ version_idx' = 1
    /\ file_valid' = TRUE
    /\ frame' = NoFrame
    /\ pc' = "versions"
    /\ UNCHANGED <<envVars, mainVars, plugin_id, verVars, tmpVars, histVars, probeVars>>

\* line 350: return valid
FileReturn ==
    /\ pc = "versions"
    /\ version_idx > nVersions
    /\ log' = Append(log, file_valid)
    /\ ids' = Append(ids, plugin_id)
    /\ failed' = MainFold(failed, file_valid)
    /\ file_idx' = file_idx + 1
    /\ pc' = "loop"
    /\ plugin_id' = <<>> /\ public_key' = <<>> /\ verify_signatures' = FALSE
    /\ nVersions' = 0 /\ version_idx' = 1 /\ file_valid' = TRUE
    /\ UNCHANGED <<envVars, seen_ids, exit_code, traceback, frame, verVars, tmpVars,
                   histVars, probeVars>>

\* lines 375-380
MainExit ==
    /\ pc = "loop"
    /\ file_idx > Len(json_files)
    /\ exit_code' = IF failed THEN 1 ELSE 0
    /\ pc' = "done"
    /\ UNCHANGED <<envVars, file_idx, failed, seen_ids, traceback, log, ids, fileVars, verVars,
                   tmpVars, histVars, probeVars>>

\* ---------------------------------------------------------- validate_version
\* lines 230-241: the checks before the artifacts loop
VersionHeadOutcome(e) ==
    IF ~(REQUIRED_VERSION_LEVEL \subseteq e.keys) THEN "missing_fields"
    ELSE IF ~validate_semver(e.version) THEN "bad_semver"
    ELSE IF ~e.artifactsIsList \/ e.nArtifacts = 0 THEN "bad_artifacts"
    ELSE "artifacts"

\* lines 259-272: the coverage check and the requires check, then return valid
RequiresOk(e) ==
    ("requires" \in e.keys /\ e.hasMinVersion) => validate_semver(e.osaurus_min_version)
VersionTailValid(wasValid, hasTarget, e) == wasValid /\ hasTarget /\ RequiresOk(e)

\* mutant: the verification is not nested in the else branch
ShouldVerifyAlways(artifactOk, verify, key) == verify /\ key # <<>>
\* lines 248-255: the signature is verified in the else branch of the
\* structural check, when verification is enabled and a public key is given
ShouldVerify(artifactOk, verify, key) == artifactOk /\ verify /\ key # <<>>

\* ------------------------------------------------- verify_artifact_signature
\* tempfile.mkdtemp: a directory that did not exist
NewTmp(dirs) == CHOOSE n \in 1..(Cardinality(dirs) + 1) : n \notin dirs
\* mutant: the directory is removed on the success path only
FinallyOnSuccessOnly(dirs, d, path) == IF path = "verified" THEN dirs \ {d} ELSE dirs
\* the finally clause: shutil.rmtree(tmpdir), whatever path left the try block
Finally(dirs, d, path) == dirs \ {d}
\* mutant: an unreachable artifact fails the verification
UnreachableFails == FALSE
\* line 168: what the function returns when the download raised
UnreachableResult == TRUE
\* lines 187-194: what the function returns for minisign's exit status
VerifierResult(returncode) == returncode = 0

VersionHead ==
    /\ pc = "versions"
    /\ version_idx <= nVersions
    /\ \E e \in EntryPool :
         LET bad == VersionHeadOutcome(e) # "artifacts" IN
         /\ mismatch' = [mismatch EXCEPT !.ver = FALSE]
         /\ err' = IF bad THEN AllScopes ELSE [err EXCEPT !.ver = FALSE]
         /\ IF bad
            THEN /\ file_valid' = FileFold(file_valid, FALSE)
                 /\ version_idx' = version_idx + 1
                 /\ pc' = "versions"
                 /\ UNCHANGED <<entry, artifact_idx, valid, has_macos_arm64>>
            ELSE /\ entry' = e
                 /\ artifact_idx' = 1
                 /\ valid' = TRUE
                 /\ has_macos_arm64' = FALSE
                 /\ pc' = "artifacts"
                 /\ UNCHANGED <<file_valid, version_idx>>
    /\ UNCHANGED <<envVars, mainVars, frame, plugin_id, public_key, verify_signatures,
                   nVersions, artifact, vres, tmpVars, skipped, probeVars>>

\* one turn of the artifacts loop up to the call of verify_artifact_signature,
\* whose first statement after reading the artifact is mkdtemp
ArtifactStep ==
    /\ pc = "artifacts"
    /\ artifact_idx <= entry.nArtifacts
    /\ \E a \in ArtifactPool :
         LET ok == validate_artifact(a) IN
         /\ artifact' = a
         /\ vres' = NoRes
         /\ valid' = ArtifactFold(valid, ok)
         /\ err' = IF ok THEN err ELSE AllScopes
         /\ has_macos_arm64' =
              IF ok /\ a.os = "macos" /\ a.arch = "arm64" THEN TRUE ELSE has_macos_arm64
         /\ IF ShouldVerify(ok, verify_signatures, public_key)
            THEN /\ tmpdir' = NewTmp(tmpdirs)
                 /\ tmpdirs' = tmpdirs \cup {NewTmp(tmpdirs)}
                 /\ pc' = "download"
                 /\ UNCHANGED artifact_idx
            ELSE /\ artifact_idx' = artifact_idx + 1
                 /\ pc' = "artifacts"
                 /\ UNCHANGED tmpVars
    /\ UNCHANGED <<envVars, mainVars, fileVars, entry, mismatch, skipped, probeVars>>

\* urllib.request.urlretrieve: it raises (the artifact is unreachable, the
\* function returns) or the bytes are stored in tmpdir
Download ==
    /\ pc = "download"
    /\ \E reachable \in BOOLEAN :
         IF reachable
         THEN /\ pc' = "verify"
              /\ UNCHANGED <<artifact_idx, valid, vres, tmpVars, skipped, err>>
         ELSE /\ vres' = [path |-> "skip", ret |-> UnreachableResult, ran |-> FALSE]
              /\ valid' = ArtifactFold(valid, UnreachableResult)
              /\ err' = err
              /\ skipped' = TRUE
              /\ tmpdirs' = Finally(tmpdirs, tmpdir, "skip")
              /\ tmpdir' = 0
              /\ artifact_idx' = artifact_idx + 1
              /\ pc' = "artifacts"
    /\ UNCHANGED <<envVars, mainVars, fileVars, entry, has_macos_arm64, artifact, mismatch,
                   probeVars>>

\* lines 170-194: the key and signature files are written and minisign runs;
\* "raised" is an exception of open/write/subprocess.run, which the finally
\* clause lets through to main
RunVerifier ==
    /\ pc = "verify"
    /\ \E how \in {"raised", "verified", "mismatch"} :
         /\ tmpdirs' = Finally(tmpdirs, tmpdir, how)
         /\ tmpdir' = 0
         /\ IF how = "raised"
            THEN /\ traceback' = TRUE /\ exit_code' = 1 /\ pc' = "done"
                 /\ vres' = [path |-> "raised", ret |-> FALSE, ran |-> FALSE]
                 /\ UNCHANGED <<artifact_idx, valid, mismatch, err>>
            ELSE LET ret == VerifierResult(IF how = "verified" THEN 0 ELSE 1) IN
                 /\ vres' = [path |-> how, ret |-> ret, ran |-> TRUE]
                 /\ valid' = ArtifactFold(valid, ret)
                 /\ mismatch' = IF how = "mismatch" THEN AllScopes ELSE mismatch
                 /\ err' = IF how = "mismatch" THEN AllScopes ELSE err
                 /\ artifact_idx' = artifact_idx + 1
                 /\ pc' = "artifacts"
                 /\ UNCHANGED <<traceback, exit_code>>
    /\ UNCHANGED <<envVars, file_idx, failed, seen_ids, log, ids, fileVars, entry,
                   has_macos_arm64, artifact, skipped, probeVars>>

\* lines 259-272, and line 347-348 of the caller
VersionTail ==
    /\ pc = "artifacts"
    /\ artifact_idx > entry.nArtifacts
    /\ LET ret == VersionTailValid(valid, has_macos_arm64, entry) IN
         /\ file_valid' = FileFold(file_valid, ret)
         /\ err' = IF has_macos_arm64 /\ RequiresOk(entry) THEN err ELSE AllScopes
    /\ version_idx' = version_idx + 1
    /\ pc' = "versions"
    /\ entry' = NoEntry /\ artifact_idx' = 1 /\ valid' = TRUE /\ has_macos_arm64' = FALSE
    /\ artifact' = NoArtifact /\ vres' = NoRes
    /\ UNCHANGED <<envVars, mainVars, frame, plugin_id, public_key, verify_signatures,
                   nVersions, tmpVars, mismatch, skipped, probeVars>>

Next ==
    \/ MainStart
    \/ ValidatePluginFile
    \/ FileTraceback
    \/ FileReturnEarly
    \/ FileEnterVersions
    \/ VersionHead
    \/ ArtifactStep
    \/ Download
    \/ RunVerifier
    \/ VersionTail
    \/ FileReturn
    \/ MainExit

Spec == Init /\ [][Next]_vars

\* ------------------------------------------- the identifier check on its own
\* The lower-case and format tests of lines 301-307 applied to every string
\* of at most MaxIdLen characters over ProbeAlphabet.
ProbeAlphabet == {"a", "B", "0", "-", "_", ".", "\n"}

InitId ==
    /\ GITHUB_BASE_REF = <<>> /\ VERIFY_SIGNATURES = <<>>
    /\ minisign_installed = FALSE /\ plugins_dir = FALSE /\ json_files = <<>>
    /\ Idle
    /\ pc = "probe"
    /\ probe_id \in SeqsUpTo(ProbeAlphabet, MaxIdLen)
    /\ probe_result = "unchecked"

ProbeCheck ==
    /\ pc = "probe"
    /\ probe_result' = PluginIdSyntax(probe_id)
    /\ pc' = "probed"
    /\ UNCHANGED <<envVars, mainVars, fileVars, verVars, tmpVars, histVars, probe_id>>

NextId == ProbeCheck

SpecId == InitId /\ [][NextId]_vars

\* ================================================================= claims
InVerify == pc \in {"download", "verify"}
InVersion == pc \in {"artifacts", "download", "verify"}
InFile == pc \in {"versions", "artifacts", "download", "verify"}
FramePresent == pc = "top_done"
\* the frame holds a manifest object with its three required fields
ManifestRead ==
    FramePresent /\ frame.data.json = "dict" /\ REQUIRED_TOP_LEVEL \subseteq frame.data.keys
SomeFailed == \E i \in DOMAIN log : ~log[i]
LineCount(sig) == Len(split(strip(sig), "\n"))

\* a base ref is configured, the prior manifest was retrieved and parsed, it
\* declares a non-empty key and that key differs from the current one
KeyChangedCase ==
    /\ GITHUB_BASE_REF # <<>>
    /\ ~frame.git.raised
    /\ frame.git.returncode = 0
    /\ frame.git.parses
    /\ frame.git.isDict
    /\ frame.git.minisign # <<>>
    /\ frame.git.minisign # frame.data.public_keys.minisign

\* ---- C1
C1_State ==
    /\ (FramePresent /\ frame.outcome \in {"key_changed", "unreleased", "no_minisign", "versions"})
         => (frame.outcome = "key_changed" <=> KeyChangedCase)
    /\ (ManifestRead /\ KeyChangedCase) => frame.outcome \in ReturnsFalse
    /\ (pc = "done" /\ SomeFailed) => exit_code = 1
C1_Step ==
    (FramePresent /\ frame.outcome = "key_changed")
        => (pc' = "loop" /\ log' = Append(log, FALSE) /\ failed')
\* C1: key immutability.  Whenever check_public_key_immutability is called, it
\* answers False (the manifest leaves by "key_changed") exactly when a base ref
\* is set, the prior manifest was retrieved and parsed, its key is non-empty
\* and differs from the current key; it answers True in every other case (no
\* base ref, file not on the base branch, no prior key, unparsable or failed
\* lookup).  A manifest whose key differs from the prior key never validates:
\* validate_plugin_file returns False and a finished run that holds a failed
\* manifest has exit status 1.
C1_KeyImmutability == []C1_State /\ [][C1_Step]_vars
C1_Witness == FramePresent /\ frame.outcome = "key_changed"

\* ---- C2
\* C2: with VERIFY_SIGNATURES enabled and minisign not installed, every run
\* over an existing registry directory that holds at least one manifest ends
\* with exit status 1, whatever the manifests contain (manifests whose
\* versions list is empty included).
C2_CapabilityMissingFailsRun ==
    (/\ pc = "done"
     /\ VerifyEnabled(VERIFY_SIGNATURES)
     /\ ~minisign_installed
     /\ plugins_dir
     /\ json_files # <<>>) => exit_code = 1

\* ---- C3
C3_State ==
    /\ vres.path = "mismatch" => (vres.ran /\ ~vres.ret)
    /\ (InVersion /\ mismatch.ver) => ~valid
    /\ (InFile /\ mismatch.file) => (~file_valid \/ (InVersion /\ mismatch.ver))
    /\ (pc = "loop" /\ mismatch.file) => (log # <<>> /\ ~log[Len(log)] /\ failed)
    /\ (pc = "done" /\ (mismatch.file \/ failed)) => exit_code = 1
C3_Step == failed => failed'
\* C3: a signature mismatch is never downgraded.  When minisign reports a bad
\* signature, verify_artifact_signature returns False; from then on the
\* enclosing version stays invalid, the enclosing manifest stays invalid and
\* is logged as failed, main's failed flag once set is never cleared, and the
\* finished run has exit status 1, whatever the later artifacts, versions and
\* manifests do.
C3_MismatchNeverDowngraded == []C3_State /\ [][C3_Step]_vars
\* a run that ended normally with status 1 after a mismatch in one version of
\* its last manifest and a later version of it without any error
C3_Witness ==
    /\ pc = "done" /\ exit_code = 1 /\ ~traceback
    /\ mismatch.file /\ ~mismatch.ver /\ ~err.ver

\* ---- C4
\* C4: an unreachable artifact is skipped, not failed.  When the download
\* fails, verify_artifact_signature returns True and minisign is not run; a
\* version, a manifest is invalid only if an Error was reported for it, so a
\* skipped download alone never fails it; and a finished run without
\* traceback all of whose manifests validated has exit status 0.
C4_UnreachableSkipped ==
    /\ vres.path = "skip" => (vres.ret /\ ~vres.ran)
    /\ (InVersion /\ ~valid) => err.ver
    /\ (InFile /\ ~file_valid) => err.file
    /\ (pc = "loop" /\ log # <<>> /\ ~log[Len(log)]) => err.file
    /\ (pc = "done" /\ plugins_dir /\ ~traceback /\ ~SomeFailed) => exit_code = 0
C4_Witness == pc = "done" /\ exit_code = 0 /\ skipped

\* ---- C5
\* C5: the run outcome is the OR of the per-manifest failures.  A finished run
\* has exit status 0 exactly when the registry directory exists and every
\* discovered manifest was validated and returned True (zero manifests
\* included); it has exit status 1 when a manifest failed or the directory is
\* absent; and no manifest is left unvalidated behind a failing one.
C5_RunOutcomeIsOr ==
    pc = "done" =>
        /\ exit_code = 0 <=>
             (plugins_dir /\ Len(log) = Len(json_files) /\ ~SomeFailed)
        /\ (~plugins_dir \/ SomeFailed) => exit_code = 1
        /\ {i \in DOMAIN json_files : i > file_idx} = {}

\* ---- C6
\* C6 as claimed: of two manifests processed in one run, each carrying the
\* identifier of its own file, whose identifiers are equal ignoring case, the
\* one processed later is rejected (first occurrence wins).
C6_LaterOneRejected ==
    \A i, j \in DOMAIN log :
        (/\ i < j
         /\ ids[i] = expected_id(json_files[i])
         /\ ids[j] = expected_id(json_files[j])
         /\ lower(ids[i]) = lower(ids[j])) => ~log[j]
\* C6 amended: identifier uniqueness is case-insensitive, but the first
\* occurrence does not always win.  seen_ids holds lower-case entries only,
\* so never two entries equal ignoring case; at most one manifest per
\* case-folded identifier is accepted in a run and every accepted identifier
\* is lower-case; a manifest whose identifier is its filename stem and is not
\* all lower-case is rejected by the lower-case test, wherever it comes in the
\* run; and a manifest whose identifier equals, ignoring case, that of a
\* manifest accepted before it is rejected.
C6_CaseInsensitiveUniqueness ==
    /\ \A x \in seen_ids : x = lower(x)
    /\ \A x, y \in seen_ids : lower(x) = lower(y) => x = y
    /\ \A i, j \in DOMAIN log :
         (i # j /\ log[i] /\ log[j]) => lower(ids[i]) # lower(ids[j])
    /\ \A i \in DOMAIN log : log[i] => ids[i] = lower(ids[i])
    /\ (/\ ManifestRead
        /\ frame.data.plugin_id = expected_id(json_files[file_idx])
        /\ frame.data.plugin_id # lower(frame.data.plugin_id))
         => frame.outcome = "not_lower"
    /\ (/\ ManifestRead
        /\ \E i \in DOMAIN log : log[i] /\ lower(ids[i]) = lower(frame.data.plugin_id))
         => frame.outcome \in ReturnsFalse
C6_Witness ==
    /\ Len(log) = 2
    /\ ids[1] # ids[2] /\ lower(ids[1]) = lower(ids[2])
    /\ ~log[1] /\ log[2]

\* ---- C7
Unreleased ==
    ManifestRead /\ frame.data.versionsIsList /\ frame.data.nVersions = 0
C7_State ==
    /\ (/\ Unreleased
        /\ frame.data.plugin_id = expected_id(json_files[file_idx])
        /\ PluginIdSyntax(frame.data.plugin_id) = "ok"
        /\ validate_public_keys(frame.data.public_keys)
        /\ ~KeyChangedCase) => frame.outcome = "unreleased"
    /\ (Unreleased /\ ~validate_public_keys(frame.data.public_keys))
         => frame.outcome \in ReturnsFalse
    /\ (Unreleased /\ KeyChangedCase) => frame.outcome \in ReturnsFalse
    /\ (FramePresent /\ frame.outcome = "unreleased") => Unreleased
    /\ InFile => nVersions > 0
C7_Step ==
    (FramePresent /\ frame.outcome = "unreleased")
        => /\ pc' = "loop"
           /\ log' = Append(log, TRUE)
           /\ failed' = failed
           /\ UNCHANGED <<verVars, tmpVars, skipped, mismatch>>
\* C7: a manifest with a valid identifier, a well-formed minisign key that
\* does not break immutability and versions = [] validates: it returns True
\* straight from the top-level checks, so no version, artifact or signature
\* step runs for it (those run only for manifests with a version).  Its key
\* is still validated and the immutability check still applied: the same
\* manifest with a missing or malformed key, or with a key that differs from
\* the prior one, returns False.
C7_EmptyVersions == []C7_State /\ [][C7_Step]_vars
C7_Witness ==
    /\ FramePresent /\ frame.outcome = "unreleased"
    /\ GITHUB_BASE_REF # <<>> /\ frame.git.minisign = frame.data.public_keys.minisign

\* ---- C8
\* C8: the structural check precedes cryptography.  The download and minisign
\* run only for an artifact that validate_artifact accepted, whose signature
\* blob therefore has exactly four lines; an artifact it rejected, a
\* three-line blob among them, fails the version with no verification attempt
\* (no temporary directory, no download, no minisign run).
C8_StructureBeforeCrypto ==
    /\ InVerify =>
         (validate_artifact(artifact)
            /\ LineCount(artifact.minisign.signature) = SignatureLines)
    /\ vres.path # "none" => validate_artifact(artifact)
    /\ (artifact # NoArtifact /\ ~validate_artifact(artifact))
         => (pc = "artifacts" /\ vres = NoRes /\ ~valid /\ tmpdirs = {})
    /\ (artifact # NoArtifact /\ LineCount(artifact.minisign.signature) = SignatureLines - 1)
         => (pc = "artifacts" /\ vres = NoRes /\ ~valid /\ tmpdirs = {})
C8_Witness ==
    /\ pc = "artifacts" /\ verify_signatures /\ public_key # <<>>
    /\ artifact # NoArtifact
    /\ LineCount(artifact.minisign.signature) = SignatureLines - 1
    /\ ~valid

\* ---- C10
\* C10: temporary storage is cleaned up.  A temporary directory exists only
\* while verify_artifact_signature is between mkdtemp and its return, and then
\* it is the only one; after the function is left by a failed download, a
\* mismatch, a success or an exception, and when the run has ended, none
\* exists.
C10_TempDirRemoved ==
    /\ InVerify => tmpdirs = {tmpdir}
    /\ ~InVerify => tmpdirs = {}
    /\ vres.path \in {"skip", "mismatch", "verified", "raised"} => tmpdirs = {}
C10_Witness == pc = "done" /\ traceback /\ vres.path = "raised" /\ tmpdirs = {}

\* ---- C9 (under SpecId)
\* [a-z0-9][a-z0-9_-]*
SpecSegment(seg) ==
    seg # <<>> /\ seg[1] \in ClassLowerAlnum /\ AllIn(seg, ClassLowerAlnumUH)
\* two or more dot-separated segments, each a SpecSegment
SpecGrammar(id) ==
    LET segs == split(id, ".") IN
    Len(segs) >= 2 /\ \A i \in DOMAIN segs : SpecSegment(segs[i])
\* a first segment [a-z0-9]+, then one or more segments [a-z0-9_-]+
CodeGrammar(id) ==
    LET segs == split(id, ".") IN
    /\ Len(segs) >= 2
    /\ segs[1] # <<>> /\ AllIn(segs[1], ClassLowerAlnum)
    /\ \A i \in 2..Len(segs) : segs[i] # <<>> /\ AllIn(segs[i], ClassLowerAlnumUH)
WithoutFinalNewline(id) ==
    IF id # <<>> /\ id[Len(id)] = "\n" THEN SubSeq(id, 1, Len(id) - 1) ELSE id
Probed == pc = "probed"
\* C9 as claimed: a lower-case identifier passes the syntax check exactly when
\* it has two or more dot-separated segments each matching [a-z0-9][a-z0-9_-]*.
C9_SpecGrammar ==
    (Probed /\ probe_id = lower(probe_id))
        => (probe_result = "ok" <=> SpecGrammar(probe_id))
\* C9 amended: a lower-case identifier passes the syntax check exactly when,
\* a single final newline aside, it is a first segment matching [a-z0-9]+
\* followed by one or more dot-separated segments each matching [a-z0-9_-]+;
\* an identifier that is not lower-case never passes.
C9_CodeGrammar ==
    /\ (Probed /\ probe_id = lower(probe_id))
         => (probe_result = "ok" <=> CodeGrammar(WithoutFinalNewline(probe_id)))
    /\ (Probed /\ probe_id # lower(probe_id)) => probe_result = "not_lower"
C9_Witness == Probed /\ probe_result = "ok" /\ probe_id = <<"a", ".", "-", "0">>

====
